---- MODULE Spec2Model ----
(***************************************************************************)
(* A model of model/ngp.py: the NGPradianceField of dreamfusionacc.         *)
(*                                                                         *)
(* Tensors are modelled one batch row at a time (every operation of the    *)
(* field is pointwise over the leading batch axis).  Numbers are exact:    *)
(* a scalar is a value a + b*sqrt(r) with a, b rational and r a            *)
(* square-free positive integer, or NaN.  Rounding of the floating-point   *)
(* formats is not modelled; NaN and its propagation are.                   *)
(*                                                                         *)
(* The tiny-cuda-nn modules (hash grid, spherical harmonics, fused MLPs)   *)
(* and the density activation callable are black boxes: every evaluation   *)
(* returns some value of a small set of values the module can produce.     *)
(***************************************************************************)
EXTENDS Integers, Sequences, FiniteSets

VARIABLES phase, args, field, out

vars == <<phase, args, field, out>>

-----------------------------------------------------------------------------
(* Rational numbers <<n, d>>, d > 0, in lowest terms.  <<0, 0>> is NaN.     *)

Abs(n) == IF n < 0 THEN -n ELSE n

RECURSIVE GCD(_, _)
GCD(m, n) == IF n = 0 THEN m ELSE GCD(n, m % n)

NaN == <<0, 0>>

Rat(n, d) ==
    IF d = 0 THEN NaN
    ELSE LET g == GCD(Abs(n), Abs(d))
         IN  IF d < 0 THEN <<(-n) \div g, (-d) \div g>> ELSE <<n \div g, d \div g>>

R(n) == <<n, 1>>

IsNaN(q) == q[2] = 0

\* sums and comparisons go through the least common denominator, products
\* cancel across, so that intermediate integers stay small
RAdd(p, q) ==
    IF IsNaN(p) \/ IsNaN(q) THEN NaN
    ELSE LET g == GCD(p[2], q[2])
         IN  Rat(p[1] * (q[2] \div g) + q[1] * (p[2] \div g), (p[2] \div g) * q[2])

RNeg(p) == <<-p[1], p[2]>>

RAbs(p) == <<Abs(p[1]), p[2]>>

RMul(p, q) ==
    IF IsNaN(p) \/ IsNaN(q) THEN NaN
    ELSE IF p[1] = 0 \/ q[1] = 0 THEN R(0)
    ELSE LET g1 == GCD(Abs(p[1]), q[2])
             g2 == GCD(Abs(q[1]), p[2])
         IN  <<(p[1] \div g1) * (q[1] \div g2), (p[2] \div g2) * (q[2] \div g1)>>

\* 1 / q; the reciprocal of zero does not occur in the model
RInv(q) == IF IsNaN(q) THEN NaN
           ELSE IF q[1] < 0 THEN <<-q[2], -q[1]>> ELSE <<q[2], q[1]>>

\* comparisons with NaN are false, as in IEEE 754
RLt(p, q) ==
    /\ ~IsNaN(p)
    /\ ~IsNaN(q)
    /\ LET g == GCD(p[2], q[2]) IN p[1] * (q[2] \div g) < q[1] * (p[2] \div g)

RSign(p) == IF p[1] > 0 THEN 1 ELSE IF p[1] < 0 THEN -1 ELSE 0

-----------------------------------------------------------------------------
(* Scalars a + b*sqrt(r).  Canonical: b = 0 implies r = 1, and r = 1        *)
(* implies b = 0; r is square-free.  NaN is the scalar whose a is NaN.      *)

Num(a, b, r) ==
    IF IsNaN(a) \/ IsNaN(b) THEN [a |-> NaN, b |-> R(0), r |-> 1]
    ELSE IF b[1] = 0 THEN [a |-> a, b |-> R(0), r |-> 1]
    ELSE IF r = 1 THEN [a |-> RAdd(a, b), b |-> R(0), r |-> 1]
    ELSE [a |-> a, b |-> b, r |-> r]

Q(n, d) == [a |-> Rat(n, d), b |-> R(0), r |-> 1]

Zero == Q(0, 1)
One == Q(1, 1)
NaNNum == [a |-> NaN, b |-> R(0), r |-> 1]

IsNaNNum(x) == IsNaN(x.a)

\* square roots are taken of integers below (ROOT_BOUND + 1)^2
ROOT_BOUND == 400

\* a sum, product or root outside a + b*sqrt(r): evaluating it stops TLC
Unsupported == CHOOSE v \in {} : TRUE

\* the largest k with k*k dividing m (m >= 1)
SquarePart(m) ==
    IF m > ROOT_BOUND * ROOT_BOUND THEN Unsupported
    ELSE LET top == IF m < ROOT_BOUND THEN m ELSE ROOT_BOUND
             ks == {k \in 1..top : k * k <= m /\ m % (k * k) = 0}
         IN  CHOOSE k \in ks : \A j \in ks : j <= k

\* the integer part of sqrt(m)
Isqrt(m) == CHOOSE k \in 0..ROOT_BOUND : k * k <= m /\ m < (k + 1) * (k + 1)

\* torch.sqrt of a rational q = n/d >= 0, n and d coprime:
\* sqrt(n)*sqrt(d)/d = (kn*kd/d) * sqrt(rn*rd), n = kn^2*rn, d = kd^2*rd
Sqrt(q) ==
    IF IsNaN(q) \/ q[1] < 0 THEN NaNNum
    ELSE IF q[1] = 0 THEN Zero
    ELSE LET kn == SquarePart(q[1])
             kd == SquarePart(q[2])
         IN  Num(R(0), Rat(kn * kd, q[2]),
                 (q[1] \div (kn * kn)) * (q[2] \div (kd * kd)))

Scale(q, x) == Num(RMul(q, x.a), RMul(q, x.b), x.r)

\* x + y for scalars one of which is rational or which share their radicand
\* (the only sums the field's formulas form on the modelled inputs)
Add(x, y) ==
    IF IsNaNNum(x) \/ IsNaNNum(y) THEN NaNNum
    ELSE IF x.r # y.r /\ x.r # 1 /\ y.r # 1 THEN Unsupported
    ELSE Num(RAdd(x.a, y.a), RAdd(x.b, y.b), IF x.r = 1 THEN y.r ELSE x.r)

Neg(x) == [a |-> RNeg(x.a), b |-> RNeg(x.b), r |-> x.r]

Sub(x, y) == Add(x, Neg(y))

\* the sign of a + b*sqrt(r); 0 for NaN (every comparison with NaN is false).
\* With a and b of opposite signs |a| is compared with |b|*sqrt(r) through the
\* integers around sqrt(r), and through the squares between them.
Sign(x) ==
    IF IsNaNNum(x) THEN 0
    ELSE IF x.b[1] = 0 THEN RSign(x.a)
    ELSE IF RSign(x.a) = RSign(x.b) \/ x.a[1] = 0 THEN RSign(x.b)
    ELSE LET ratio == RAbs(RMul(x.a, RInv(x.b)))
             lo == Isqrt(x.r)
         IN  IF ~RLt(R(lo), ratio) THEN RSign(x.b)
             ELSE IF ~RLt(ratio, R(lo + 1)) THEN RSign(x.a)
             ELSE IF RLt(R(x.r), RMul(ratio, ratio)) THEN RSign(x.a)
             ELSE RSign(x.b)

Lt(x, y) ==
    IF x.b[1] = 0 /\ y.b[1] = 0 THEN RLt(x.a, y.a) ELSE Sign(Sub(y, x)) = 1

\* x * y for scalars one of which is rational, or which share their radicand,
\* or which both are of the form b*sqrt(r)
Mul(x, y) ==
    IF IsNaNNum(x) \/ IsNaNNum(y) THEN NaNNum
    ELSE IF x.r # y.r /\ x.r # 1 /\ y.r # 1
    THEN IF x.a[1] = 0 /\ y.a[1] = 0
         THEN Scale(RMul(x.b, y.b), Sqrt(R(x.r * y.r)))
         ELSE Unsupported
    ELSE LET r == IF x.r = 1 THEN y.r ELSE x.r
         IN  Num(RAdd(RMul(x.a, y.a), RMul(RMul(x.b, R(r)), y.b)),
                 RAdd(RMul(x.a, y.b), RMul(x.b, y.a)), r)

\* 1 / y for a divisor y that is a non-zero rational or a non-zero b*sqrt(r):
\* 1 / (b*sqrt(r)) = sqrt(r) / (b*r)
Inv(y) ==
    IF IsNaNNum(y) THEN NaNNum
    ELSE IF y.b[1] = 0 THEN [a |-> RInv(y.a), b |-> R(0), r |-> 1]
    ELSE IF y.a[1] = 0 THEN [a |-> R(0), b |-> RInv(RMul(y.b, R(y.r))), r |-> y.r]
    ELSE Unsupported

Div(x, y) == Mul(x, Inv(y))

\* clamp(min = 0) and clamp(-bound, bound) of torch: NaN stays NaN
ClampMin0(x) == IF Sign(x) = -1 THEN Zero ELSE x

Clamp(x, lo, hi) == IF Lt(x, lo) THEN lo ELSE IF Lt(hi, x) THEN hi ELSE x

-----------------------------------------------------------------------------
(* Rows: a 3-vector is a sequence of three scalars.                         *)

NUM_DIM == 3

Axes == 1..NUM_DIM

Vec(a, b, c) == <<Q(a, 1), Q(b, 1), Q(c, 1)>>

\* the row of the components f[1], f[2], f[3]
Row(f) == <<f[1], f[2], f[3]>>

\* (v**2).sum(-1) of a row of rationals (or NaN): a rational or NaN
SumSq(v) ==
    IF \E i \in Axes : v[i].b[1] # 0 THEN Unsupported
    ELSE LET sq == Row([i \in Axes |-> RMul(v[i].a, v[i].a)])
         IN  RAdd(RAdd(sq[1], sq[2]), sq[3])

\* (a * b).sum(-1) for rows sharing their radicand
Dot(a, b) ==
    LET prod == Row([i \in Axes |-> Mul(a[i], b[i])])
    IN  Add(Add(prod[1], prod[2]), prod[3])

-----------------------------------------------------------------------------
(* contract_to_unisphere (derivative = False, the only mode the field uses) *)

\* (x - aabb_min) / (aabb_max - aabb_min)
NormaliseToBox(x, aabb) ==
    Row([i \in Axes |-> Div(Sub(x[i], aabb[i]), Sub(aabb[i + NUM_DIM], aabb[i]))])

\* x[mask] = (2 - 1 / mag[mask]) * (x[mask] / mag[mask]), mask = mag > 1
ContractRow(x, mag) ==
    IF Lt(One, mag)
    THEN Row([i \in Axes |-> Mul(Sub(Q(2, 1), Div(One, mag)), Div(x[i], mag))])
    ELSE x

\* from `x = x * 2 - 1` on, for the normalised row x1
ContractNormalised(x1) ==
    LET x2 == Row([i \in Axes |-> Sub(Scale(R(2), x1[i]), One)])
        x3 == ContractRow(x2, Sqrt(SumSq(x2)))
    IN  Row([i \in Axes |-> Add(Scale(Rat(1, 4), x3[i]), Q(1, 2))])

contract_to_unisphere(x, aabb) == ContractNormalised(NormaliseToBox(x, aabb))

-----------------------------------------------------------------------------
(* Bounds of the model and the values its inputs are drawn from.            *)

\* positions lie on the x and y axes at integer coordinates up to MaxCoord: inside,
\* on the boundary and outside of both boxes of NumericArgs
MaxCoord == 2
\* the density head returns an integer of magnitude at most MaxHead, or NaN
MaxHead == 1
\* the density activation returns an integer in 1..MaxDensity on a finite input
MaxDensity == 1
\* learning rates are 1/1000 .. MaxLr/1000
MaxLr == 3

Positions == {Vec(c, 0, 0) : c \in -1..MaxCoord} \cup {Vec(0, MaxCoord, 0)}

Directions == {Vec(0, 0, 1)}

LightDirections == {Vec(0, 0, 1), Vec(-2, 0, 0), Vec(1, 1, 0)}

AmbientRatios == {Q(1, 10), Q(1, 2)}

ShadingModes == {"albedo", "textureless", "lambertian", "phong"}

LearningRates == {Q(n, 1000) : n \in 1..MaxLr}

\* aabb, n_levels, geo_feat_dim, density_bias_scale, offset_scale: the defaults,
\* and settings that change the box, the bias parameters and the widths
NumericArgs ==
    LET unit == <<Q(-1, 1), Q(-1, 1), Q(-1, 1), Q(1, 1), Q(1, 1), Q(1, 1)>>
        wide == <<Q(-1, 1), Q(-3, 1), Q(-1, 1), Q(3, 1), Q(1, 1), Q(3, 1)>>
        P(aabb, n_levels, geo_feat_dim, density_bias_scale, offset_scale) ==
            [aabb |-> aabb, n_levels |-> n_levels, geo_feat_dim |-> geo_feat_dim,
             density_bias_scale |-> density_bias_scale, offset_scale |-> offset_scale]
    IN  {P(unit, 16, 31, Q(10, 1), Q(1, 2)),
         P(wide, 16, 31, Q(5, 1), Q(1, 1)),
         P(unit, 8, 31, Q(10, 1), Q(1, 1)),
         P(wide, 16, 15, Q(5, 1), Q(1, 2)),
         P(unit, 8, 15, Q(10, 1), Q(1, 2))}

ConstructorArgs ==
    {[aabb |-> n.aabb,
      use_viewdirs |-> b.use_viewdirs,
      unbounded |-> b.unbounded,
      geo_feat_dim |-> n.geo_feat_dim,
      n_levels |-> n.n_levels,
      use_predict_normal |-> b.use_predict_normal,
      density_bias_scale |-> n.density_bias_scale,
      offset_scale |-> n.offset_scale,
      use_predict_bkgd |-> b.use_predict_bkgd] :
        n \in NumericArgs,
        b \in [use_viewdirs : BOOLEAN, unbounded : BOOLEAN,
               use_predict_normal : BOOLEAN, use_predict_bkgd : BOOLEAN]}

-----------------------------------------------------------------------------
(* The tiny-cuda-nn modules and the activation: black boxes.                *)

\* SphericalHarmonics of degree 4 has 4*4 coefficients
SH_DEGREE == 4
N_FEATURES_PER_LEVEL == 2
MLP_SIGMA_N_INPUT_DIMS == 32

\* mlp_sigma: one pre-activation per row, any finite value or NaN
SigmaOutputs == {Q(h, 1) : h \in -MaxHead..MaxHead} \cup {NaNNum}

\* density_activation (default softplus(x - 1)): positive on a finite input, NaN on NaN
ActivationOutputs(pre) ==
    IF IsNaNNum(pre) THEN {NaNNum} ELSE {Q(d, 1) : d \in 1..MaxDensity}

\* mlp_rgb, mlp_bkgd: three channels in [0, 1] (Sigmoid output activation)
RgbOutputs == {<<Q(1, 2), Q(1, 4), Q(1, 1)>>, <<Q(0, 1), Q(1, 1), Q(1, 2)>>}

\* mlp_normal: three channels in [0, 1] (Sigmoid output activation)
NormalOutputs == {<<Q(0, 1), Q(0, 1), Q(1, 2)>>, <<Q(3, 5), Q(4, 5), Q(0, 1)>>,
                  <<Q(1, 2), Q(1, 2), Q(0, 1)>>}

\* mlp_encoder: the hash-grid feature row of a mapped position
mlp_encoder(f, x) == [hashgrid |-> x, width |-> f.mods["mlp_encoder"].n_out]

\* direction_encoding: the spherical-harmonics row of a direction in [0, 1]
direction_encoding(f, d) == [sh |-> d, width |-> f.mods["direction_encoding"].n_out]

-----------------------------------------------------------------------------
(* NGPradianceField.__init__                                               *)

Network(n_in, n_out) == [n_in |-> n_in, n_out |-> n_out]

DirectionEncoding == Network(NUM_DIM, SH_DEGREE * SH_DEGREE)

HashGrid(n_levels) == Network(NUM_DIM, n_levels * N_FEATURES_PER_LEVEL)

\* the sub-modules __init__ registers, each with its input and output width
Modules(a) ==
    LET dir_dims == IF a.use_viewdirs THEN DirectionEncoding.n_out ELSE 0
        head_in == dir_dims + 1 + a.geo_feat_dim
        always == {"mlp_encoder", "mlp_sigma", "mlp_rgb"}
        names == always
                 \cup (IF a.use_viewdirs THEN {"direction_encoding"} ELSE {})
                 \cup (IF a.use_predict_normal THEN {"mlp_normal"} ELSE {})
                 \cup (IF a.use_predict_bkgd THEN {"mlp_bkgd"} ELSE {})
    IN  [m \in names |->
            CASE m = "direction_encoding" -> DirectionEncoding
              [] m = "mlp_encoder" -> HashGrid(a.n_levels)
              [] m = "mlp_sigma" -> Network(MLP_SIGMA_N_INPUT_DIMS, 1)
              [] m = "mlp_rgb" -> Network(head_in, 3)
              [] m = "mlp_normal" -> Network(head_in, 3)
              [] m = "mlp_bkgd" -> Network(DirectionEncoding.n_out, 3)]

\* a constructor without the assertion (a faulty variant, for C5)
NoInitAsserts(a) == TRUE

\* `assert self.use_viewdirs is True`, reached only when use_predict_bkgd
InitAsserts(a) == a.use_predict_bkgd => a.use_viewdirs

NewField(a) ==
    [aabb |-> a.aabb,
     use_viewdirs |-> a.use_viewdirs,
     unbounded |-> a.unbounded,
     use_predict_normal |-> a.use_predict_normal,
     density_bias_scale |-> a.density_bias_scale,
     offset_scale |-> a.offset_scale,
     use_predict_bkgd |-> a.use_predict_bkgd,
     geo_feat_dim |-> a.geo_feat_dim,
     mods |-> Modules(a)]

NoCall == [op |-> "none"]

Construct ==
    /\ phase = "new"
    /\ out' = NoCall
    /\ \E a \in ConstructorArgs :
          /\ args' = <<a>>
          /\ IF InitAsserts(a)
             THEN phase' = "built" /\ field' = <<NewField(a)>>
             ELSE phase' = "AssertionError" /\ field' = <<>>

-----------------------------------------------------------------------------
(* density_bias and query_density                                          *)

DEFAULT_DENSITY_BIAS_SCALE == Q(10, 1)
DEFAULT_OFFSET_SCALE == Q(1, 2)

\* tau = density_bias_scale * (1 - sqrt((x**2).sum(-1)) / offset_scale)
density_bias(x, density_bias_scale, offset_scale) ==
    Mul(density_bias_scale, Sub(One, Div(Sqrt(SumSq(x)), offset_scale)))

\* `self.density_bias(x)`: the bias query_density adds to the pre-activation
QueryDensityBias(f, x) ==
    density_bias(x, DEFAULT_DENSITY_BIAS_SCALE, DEFAULT_OFFSET_SCALE)

\* the position handed to the encoder: contraction or AABB normalisation
MapPosition(f, x) ==
    IF f.unbounded
    THEN contract_to_unisphere(x, f.aabb)
    ELSE NormaliseToBox(x, f.aabb)

\* a selector that accepts the faces of the unit cube (a faulty variant, for C2)
SelectorClosed(xm) == \A i \in Axes : ~Lt(xm[i], Zero) /\ ~Lt(One, xm[i])

\* selector = ((x > 0.0) & (x < 1.0)).all(dim=-1)
Selector(xm) == \A i \in Axes : Lt(Zero, xm[i]) /\ Lt(xm[i], One)

\* activation(...) * selector[..., None]: the product with 1.0 or 0.0
MaskDensity(act, selector) == Mul(act, IF selector THEN One ELSE Zero)

\* the reshape of the encoder's output to 1 + geo_feat_dim columns, and the
\* input width mlp_sigma was built with
ShapesFit(f) ==
    /\ f.mods["mlp_encoder"].n_out = 1 + f.geo_feat_dim
    /\ 1 + f.geo_feat_dim = f.mods["mlp_sigma"].n_in

\* query_density from the encoder on: every (density, x) the call can return
\* with return_feat = True, one per output h of mlp_sigma and output act of the
\* activation, given the bias and the mapped position xm
DensityResults(f, bias, xm) ==
    LET selector == Selector(xm)
    IN  UNION {{[density |-> MaskDensity(act, selector),
                 feat |-> mlp_encoder(f, xm),
                 h |-> h,
                 density_bias |-> bias,
                 act |-> act,
                 selector |-> selector] :
                    act \in ActivationOutputs(Add(h, bias))} :
               h \in SigmaOutputs}

query_density(f, x) == DensityResults(f, QueryDensityBias(f, x), MapPosition(f, x))

\* a field exists and no call on it is in progress or unreturned
Built == phase = "built"

Idle == Built /\ out = NoCall

F == field[1]

QueryDensity ==
    /\ Idle
    /\ \E x \in Positions, return_feat \in BOOLEAN :
          IF ShapesFit(F)
          THEN \E r \in query_density(F, x) :
                  out' = [op |-> "query_density", status |-> "ok", x |-> x,
                          return_feat |-> return_feat,
                          density |-> r.density,
                          feat |-> IF return_feat THEN <<r.feat>> ELSE <<>>,
                          q |-> r]
          ELSE out' = [op |-> "query_density", status |-> "RuntimeError", x |-> x]
    /\ UNCHANGED <<phase, args, field>>

-----------------------------------------------------------------------------
(* _compute_embedding, the heads, _finite_difference_normals_approximator   *)

\* tcnn requires directions in the range [0, 1]
RemapDirection(dir) == Row([i \in Axes |-> Div(Add(dir[i], One), Q(2, 1))])

compute_embedding(f, dir, embedding) ==
    IF f.use_viewdirs
    THEN LET d == direction_encoding(f, RemapDirection(dir))
         IN  [dir |-> <<d>>, feat |-> embedding,
              width |-> d.width + 1 + f.geo_feat_dim]
    ELSE [dir |-> <<>>, feat |-> embedding, width |-> 1 + f.geo_feat_dim]

FD_BOUND == Q(2, 1)
FD_EPSILON == Q(1, 100)

\* perturbed points that are not clamped (a faulty variant, for C9)
PerturbedUnclamped(x, axis, sgn) ==
    Row([i \in Axes |-> IF i = axis THEN Add(x[i], Scale(R(sgn), FD_EPSILON)) ELSE x[i]])

\* (positions + sgn * epsilon * e_axis).clamp(-bound, bound)
Perturbed(x, axis, sgn) ==
    Row([i \in Axes |->
            Clamp(IF i = axis THEN Add(x[i], Scale(R(sgn), FD_EPSILON)) ELSE x[i],
                  Neg(FD_BOUND), FD_BOUND)])

\* the six points, in the order the approximator queries them
FDPoints(x) ==
    <<Perturbed(x, 1, 1), Perturbed(x, 2, 1), Perturbed(x, 3, 1),
      Perturbed(x, 1, -1), Perturbed(x, 2, -1), Perturbed(x, 3, -1)>>

\* 0.5 * (dist_pos - dist_neg) / epsilon
CentralDifference(dist_pos, dist_neg) ==
    Div(Scale(Rat(1, 2), Sub(dist_pos, dist_neg)), FD_EPSILON)

\* `self.query_density(p.clamp(-bound, bound), bound)[0]`: bound is truthy, so
\* the call returns (density, feat) and [0] is the density
FDDensities(f, p) == {r.density : r \in query_density(f, p)}

\* every gradient the approximator can return at x, with the points it queried
finite_difference_normals_approximator(f, x) ==
    LET pts == FDPoints(x)
        dist == [k \in 1..(2 * NUM_DIM) |-> FDDensities(f, pts[k])]
        grad == [i \in Axes |->
                    {CentralDifference(dp, dn) : dp \in dist[i], dn \in dist[i + NUM_DIM]}]
    IN  {[raw |-> <<gx, gy, gz>>, queried |-> pts,
          calls |-> [k \in 1..(2 * NUM_DIM) |-> "query_density"],
          head_in |-> <<>>] :
            gx \in grad[1], gy \in grad[2], gz \in grad[3]}

\* x / sqrt(clamp(sum(x * x), min=1e-20)); the sum of a non-zero row of the
\* model is far above 1e-20, and the zero row divided by 1e-10 is the zero row
safe_normalize(x) ==
    LET s == SumSq(x)
        norm == Sqrt(s)
    IN  IF IsNaN(s) THEN <<NaNNum, NaNNum, NaNNum>>
        ELSE IF s[1] = 0 THEN <<Zero, Zero, Zero>>
        ELSE Row([i \in Axes |-> Div(x[i], norm)])

nan_to_num(v) == Row([i \in Axes |-> IF IsNaNNum(v[i]) THEN Zero ELSE v[i]])

\* ambient_ratio + (1 - ambient_ratio) * (normal @ light / |light|).clamp(min=0)
Lambertian(normal, light_direction, ambient_ratio) ==
    Add(ambient_ratio,
        Mul(Sub(One, ambient_ratio),
            ClampMin0(Div(Dot(normal, light_direction),
                          Sqrt(SumSq(light_direction))))))

-----------------------------------------------------------------------------
(* forward                                                                 *)

\* the normal of a non-albedo call before normalisation: the normal head on
\* the embedding, or the finite-difference estimate at the positions
RawNormals(f, x, embedding) ==
    IF f.use_predict_normal
    THEN {[raw |-> n, queried |-> <<>>, calls |-> <<"mlp_normal">>,
           head_in |-> <<embedding>>] : n \in NormalOutputs}
    ELSE finite_difference_normals_approximator(f, x)

\* normal = safe_normalize(normal).nan_to_num_()
Normals(f, x, embedding) ==
    {[normal |-> nan_to_num(safe_normalize(n.raw)), queried |-> n.queried,
      calls |-> n.calls, head_in |-> n.head_in] : n \in RawNormals(f, x, embedding)}

NoNormal == [normal |-> <<>>, queried |-> <<>>, calls |-> <<>>, head_in |-> <<>>]

\* a normal for every shading mode, albedo included (a faulty variant, for C3)
NormalsAlways(shading, normals) == normals

\* `if shading == "albedo": normal = None`, else one of the normals
ShadingNormals(shading, normals) == IF shading = "albedo" THEN {NoNormal} ELSE normals

\* textureless shading that tints the Lambertian term with the color head's rgb
\* (a faulty variant, for C6)
ShadeTinted(shading, rgb, lambertian) == Row([i \in Axes |-> Mul(rgb[i], lambertian)])

\* the shading of a non-albedo call: rgb from the color head's rgb and the
\* Lambertian term
Shade(shading, rgb, lambertian) ==
    IF shading = "textureless" THEN <<lambertian, lambertian, lambertian>>
    ELSE IF shading = "lambertian" THEN Row([i \in Axes |-> Mul(rgb[i], lambertian)])
    \* `NotImplementedError()` is built and dropped: nothing is raised
    ELSE rgb

\* forward, given what query_density returned (qd), the color head's output
\* (rgb0) and, for a non-albedo call, the normalised normal (nrm)
forward(f, x, dir, shading, light_direction, ambient_ratio, qd, rgb0, nrm) ==
    LET embedding == compute_embedding(f, dir, qd.feat)
        lambertian == Lambertian(nrm.normal, light_direction, ambient_ratio)
    IN  [op |-> "forward", status |-> "ok",
         x |-> x, dir |-> dir, shading |-> shading,
         light_direction |-> light_direction, ambient_ratio |-> ambient_ratio,
         rgb |-> IF shading = "albedo" THEN rgb0 ELSE Shade(shading, rgb0, lambertian),
         density |-> qd.density,
         normal |-> nrm.normal,
         feat |-> qd.feat,
         mlp_rgb_in |-> embedding, mlp_rgb_out |-> rgb0,
         mlp_normal_in |-> nrm.head_in,
         queried |-> <<x>> \o nrm.queried,
         calls |-> <<"query_density">>
                   \o (IF f.use_viewdirs THEN <<"direction_encoding">> ELSE <<>>)
                   \o <<"mlp_rgb">> \o nrm.calls]

Forward ==
    /\ Idle
    /\ \E x \in Positions, dir \in Directions :
          IF ShapesFit(F)
          THEN \E qd \in {[density |-> r.density, feat |-> r.feat] :
                             r \in query_density(F, x)} :
                  \E normals \in {Normals(F, x, compute_embedding(F, dir, qd.feat))} :
                     \E shading \in ShadingModes,
                        light_direction \in LightDirections,
                        ambient_ratio \in AmbientRatios,
                        rgb0 \in RgbOutputs :
                        \E nrm \in ShadingNormals(shading, normals) :
                           out' = forward(F, x, dir, shading, light_direction,
                                          ambient_ratio, qd, rgb0, nrm)
          ELSE \E shading \in ShadingModes :
                  out' = [op |-> "forward", status |-> "RuntimeError", x |-> x,
                          shading |-> shading]
    /\ UNCHANGED <<phase, args, field>>

-----------------------------------------------------------------------------
(* query_bkgd and get_params                                               *)

QueryBkgd ==
    /\ Idle
    /\ \E dir \in Directions :
          IF "mlp_bkgd" \in DOMAIN F.mods
          THEN \E rgb \in RgbOutputs :
                  out' = [op |-> "query_bkgd", status |-> "ok",
                          mlp_bkgd_in |-> direction_encoding(F, RemapDirection(dir)),
                          rgb |-> rgb]
          ELSE out' = [op |-> "query_bkgd", status |-> "AttributeError"]
    /\ UNCHANGED <<phase, args, field>>

\* one learning rate for every group (a faulty variant, for C7)
get_params_one_rate(f, lr) ==
    <<[params |-> "mlp_encoder", lr |-> lr],
      [params |-> "mlp_sigma", lr |-> lr],
      [params |-> "mlp_rgb", lr |-> lr]>>
    \o (IF f.use_predict_normal THEN <<[params |-> "mlp_normal", lr |-> lr]>> ELSE <<>>)
    \o (IF f.use_predict_bkgd THEN <<[params |-> "mlp_bkgd", lr |-> lr]>> ELSE <<>>)

get_params(f, lr) ==
    <<[params |-> "mlp_encoder", lr |-> lr],
      [params |-> "mlp_sigma", lr |-> lr],
      [params |-> "mlp_rgb", lr |-> lr]>>
    \o (IF f.use_predict_normal THEN <<[params |-> "mlp_normal", lr |-> lr]>> ELSE <<>>)
    \o (IF f.use_predict_bkgd
        THEN <<[params |-> "mlp_bkgd", lr |-> Div(lr, Q(10, 1))]>> ELSE <<>>)

GetParams ==
    /\ Idle
    /\ \E lr \in LearningRates :
          out' = [op |-> "get_params", status |-> "ok", lr |-> lr,
                  params |-> get_params(F, lr)]
    /\ UNCHANGED <<phase, args, field>>

\* the caller takes the result of the call; the field is ready for the next one
Return ==
    /\ Built
    /\ out # NoCall
    /\ out' = NoCall
    /\ UNCHANGED <<phase, args, field>>

-----------------------------------------------------------------------------

Init ==
    /\ phase = "new"
    /\ args = <<>>
    /\ field = <<>>
    /\ out = NoCall

Next ==
    \/ Construct
    \/ QueryDensity
    \/ Forward
    \/ QueryBkgd
    \/ GetParams
    \/ Return

Spec == Init /\ [][Next]_vars

-----------------------------------------------------------------------------
(* Properties.                                                             *)

QueryDensityReturned == out.op = "query_density" /\ out.status = "ok"

ForwardReturned == out.op = "forward" /\ out.status = "ok"

\* the position the encoder was given in the call that returned
MappedOf(r) == r.feat.hashgrid

InUnitCube(xm) == \A i \in Axes : Lt(Zero, xm[i]) /\ Lt(xm[i], One)

InsideBox(x, aabb) == \A i \in Axes : Lt(aabb[i], x[i]) /\ Lt(x[i], aabb[i + NUM_DIM])

OnOrOutsideBox(x, aabb) ==
    \E i \in Axes : ~Lt(aabb[i], x[i]) \/ ~Lt(x[i], aabb[i + NUM_DIM])

Count(seq, v) == Cardinality({k \in DOMAIN seq : seq[k] = v})

\* C1: whenever query_density returns for a point whose mapped position is not
\* strictly inside (0,1) on every axis, the returned density is exactly 0,
\* whatever the density head and the bias produced.
C1_MaskedDensityIsZero ==
    (QueryDensityReturned /\ ~InUnitCube(MappedOf(out.q))) => out.density = Zero

\* C1, the case that breaks it: a point outside the domain whose density head
\* returned NaN is returned with density NaN (NaN * 0.0), not 0.
C1_NaNOutsideDomain ==
    /\ QueryDensityReturned
    /\ ~InUnitCube(MappedOf(out.q))
    /\ IsNaNNum(out.q.h)
    /\ IsNaNNum(out.density)

\* C2: in bounded mode the mapped position m satisfies
\* m * (aabb_max - aabb_min) = position - aabb_min on every axis; a position
\* strictly inside the AABB is mapped into (0,1)^3 with a true selector, and a
\* position on the boundary or outside has a false selector.
C2_BoundedMapping ==
    (QueryDensityReturned /\ ~F.unbounded) =>
        LET m == MappedOf(out.q)
        IN  /\ \A i \in Axes :
                  Mul(m[i], Sub(F.aabb[i + NUM_DIM], F.aabb[i])) = Sub(out.x[i], F.aabb[i])
            /\ InsideBox(out.x, F.aabb) => InUnitCube(m) /\ out.q.selector
            /\ OnOrOutsideBox(out.x, F.aabb) => ~out.q.selector

\* C2, its case: a bounded query at a point on a face of the AABB, selector false
C2_BoundaryRejected ==
    /\ QueryDensityReturned
    /\ ~F.unbounded
    /\ \A i \in Axes : ~Lt(out.x[i], F.aabb[i]) /\ ~Lt(F.aabb[i + NUM_DIM], out.x[i])
    /\ \E i \in Axes : out.x[i] = F.aabb[i] \/ out.x[i] = F.aabb[i + NUM_DIM]
    /\ ~out.q.selector

\* C3: a forward call with shading albedo returns the normal None, evaluates
\* neither the normal head nor the finite-difference estimator, and returns as
\* rgb the color head's output on the embedding, for every field.
C3_AlbedoReturnsRawColor ==
    (ForwardReturned /\ out.shading = "albedo") =>
        /\ out.normal = <<>>
        /\ Count(out.calls, "mlp_normal") = 0
        /\ Count(out.calls, "query_density") = 1
        /\ out.queried = <<out.x>>
        /\ out.mlp_normal_in = <<>>
        /\ Count(out.calls, "mlp_rgb") = 1
        /\ out.rgb = out.mlp_rgb_out

\* C3, its case: an albedo call on a field that has the normal head
C3_AlbedoWithNormalHead ==
    /\ ForwardReturned
    /\ out.shading = "albedo"
    /\ F.use_predict_normal
    /\ out.normal = <<>>

\* C4: a forward call with a shading mode other than albedo, textureless and
\* lambertian does not return a result: it fails.
C4_UnknownShadingFails ==
    (out.op = "forward" /\ out.shading \notin {"albedo", "textureless", "lambertian"})
        => out.status # "ok"

\* C4, the case that breaks it: the call returns (rgb, density, normal) with the
\* color head's rgb and a computed normal
C4_UnknownShadingReturns ==
    /\ ForwardReturned
    /\ out.shading = "phong"
    /\ out.rgb = out.mlp_rgb_out
    /\ out.normal # <<>>

\* C5: constructing with use_predict_bkgd and without use_viewdirs fails in the
\* constructor and leaves no field; every field that exists and has a
\* background head has a direction encoder, and so has every field a forward
\* or query_bkgd call ran on.
C5_NoBkgdWithoutViewdirs ==
    /\ (args # <<>> /\ args[1].use_predict_bkgd /\ ~args[1].use_viewdirs)
          => (phase = "AssertionError" /\ field = <<>> /\ out = NoCall)
    /\ field # <<>> =>
          /\ F.use_predict_bkgd => F.use_viewdirs
          /\ "mlp_bkgd" \in DOMAIN F.mods => "direction_encoding" \in DOMAIN F.mods

\* C5, its case: the constructor was called with the background head and
\* without view directions, and failed
C5_ConstructionFailed ==
    /\ args # <<>>
    /\ args[1].use_predict_bkgd
    /\ ~args[1].use_viewdirs
    /\ phase = "AssertionError"

\* the light direction, of length norm > 0, is norm times the unit normal
ParallelToUnitNormal(light_direction, norm, normal) ==
    /\ Lt(Zero, norm)
    /\ \A i \in Axes : light_direction[i] = Mul(norm, normal[i])

\* C6: a forward call with shading textureless returns three equal channels,
\* each ambient_ratio + (1 - ambient_ratio) * max(0, normal . light / |light|),
\* a value of the normal, the light and the ratio alone; when the light is
\* parallel to the unit normal the rgb is (1, 1, 1).
C6_TexturelessIsLambertian ==
    (ForwardReturned /\ out.shading = "textureless") =>
        LET norm == Sqrt(SumSq(out.light_direction))
            cosine == Div(Dot(out.normal, out.light_direction), norm)
            term == Add(out.ambient_ratio,
                        Mul(Sub(One, out.ambient_ratio),
                            IF Lt(Zero, cosine) THEN cosine ELSE Zero))
        IN  /\ out.rgb = <<term, term, term>>
            /\ ParallelToUnitNormal(out.light_direction, norm, out.normal)
                  => out.rgb = <<One, One, One>>

\* C6, its case: textureless, ambient ratio 0.1, a light of length sqrt(2)
\* parallel to the unit normal, rgb (1, 1, 1) whatever the color head returned
C6_ParallelLight ==
    /\ ForwardReturned
    /\ out.shading = "textureless"
    /\ out.ambient_ratio = Q(1, 10)
    /\ out.light_direction = Vec(1, 1, 0)
    /\ ParallelToUnitNormal(out.light_direction, Sqrt(SumSq(out.light_direction)),
                            out.normal)
    /\ out.rgb = <<One, One, One>>
    /\ out.mlp_rgb_out # <<One, One, One>>

\* C7: get_params(lr) returns exactly one group for each of the spatial encoder,
\* the density head and the color head, one for the normal head iff
\* use_predict_normal, one for the background head iff use_predict_bkgd, and no
\* other; every group has learning rate lr but the background head's, lr / 10.
C7_ParamGroups ==
    (out.op = "get_params") =>
        LET enabled == {"mlp_encoder", "mlp_sigma", "mlp_rgb"}
                       \cup (IF F.use_predict_normal THEN {"mlp_normal"} ELSE {})
                       \cup (IF F.use_predict_bkgd THEN {"mlp_bkgd"} ELSE {})
        IN  /\ {out.params[k].params : k \in DOMAIN out.params} = enabled
            /\ Len(out.params) = Cardinality(enabled)
            /\ \A k \in DOMAIN out.params :
                  IF out.params[k].params = "mlp_bkgd"
                  THEN Scale(R(10), out.params[k].lr) = out.lr
                  ELSE out.params[k].lr = out.lr

\* C7, its case: a field with both optional heads, five groups, the background
\* head's at a tenth of the rate
C7_AllGroups ==
    /\ out.op = "get_params"
    /\ F.use_predict_normal
    /\ F.use_predict_bkgd
    /\ Len(out.params) = 5
    /\ \E k \in DOMAIN out.params :
          out.params[k].params = "mlp_bkgd" /\ out.params[k].lr # out.lr

\* C8: every field the constructor returned has an encoder whose output width,
\* the width 1 + geo_feat_dim and the density head's input width are equal, and
\* color and normal heads of input width direction_dims + 1 + geo_feat_dim.
C8_WidthsAgreeAtConstruction ==
    field # <<>> =>
        LET direction_dims == IF F.use_viewdirs THEN F.mods["direction_encoding"].n_out
                              ELSE 0
        IN  /\ F.mods["mlp_encoder"].n_out = 1 + F.geo_feat_dim
            /\ F.mods["mlp_sigma"].n_in = 1 + F.geo_feat_dim
            /\ F.mods["mlp_rgb"].n_in = direction_dims + 1 + F.geo_feat_dim
            /\ "mlp_normal" \in DOMAIN F.mods
                  => F.mods["mlp_normal"].n_in = direction_dims + 1 + F.geo_feat_dim

\* C8, the case that breaks it: a field built with n_levels = 8 exists, and its
\* encoder's width is not the density head's input width
C8_MismatchAccepted ==
    /\ phase = "built"
    /\ args[1].n_levels = 8
    /\ F.mods["mlp_encoder"].n_out # F.mods["mlp_sigma"].n_in

\* C9: a forward call queries the density at the input positions first and
\* once, and both heads' embedding carries the feature that query returned;
\* the call makes 1 density query when shading is albedo or the normal head is
\* enabled and 7 otherwise, the other six at the input moved by plus or minus
\* epsilon on one axis, every coordinate clamped into [-bound, bound].
C9_DensityQueries ==
    ForwardReturned =>
        LET single == out.shading = "albedo" \/ F.use_predict_normal
            n == 2 * NUM_DIM
        IN  /\ out.calls[1] = "query_density"
            /\ out.queried[1] = out.x
            /\ Count(out.calls, "query_density") = (IF single THEN 1 ELSE 1 + n)
            /\ Len(out.queried) = (IF single THEN 1 ELSE 1 + n)
            /\ out.mlp_rgb_in.feat = out.feat
            /\ Count(out.calls, "mlp_normal") = 1 => out.mlp_normal_in = <<out.mlp_rgb_in>>
            /\ ~single =>
                  LET moved == {out.queried[k + 1][i] : k \in 1..n, i \in Axes}
                      kept == Row([i \in Axes |->
                                     IF Lt(FD_BOUND, out.x[i]) THEN FD_BOUND
                                     ELSE IF Lt(out.x[i], Neg(FD_BOUND)) THEN Neg(FD_BOUND)
                                     ELSE out.x[i]])
                  IN  /\ \A q \in moved : ~Lt(q, Neg(FD_BOUND)) /\ ~Lt(FD_BOUND, q)
                      /\ \A k \in 1..n, i \in Axes :
                            LET axis == ((k - 1) % NUM_DIM) + 1
                                step == IF k <= NUM_DIM THEN FD_EPSILON ELSE Neg(FD_EPSILON)
                                to == Add(out.x[i], step)
                                q == out.queried[k + 1][i]
                            IN  IF i # axis THEN q = kept[i]
                                ELSE q = (IF Lt(FD_BOUND, to) THEN FD_BOUND
                                          ELSE IF Lt(to, Neg(FD_BOUND)) THEN Neg(FD_BOUND)
                                          ELSE to)

\* C9, its case: a shaded call without the normal head at a point on the
\* clamping bound: seven density queries, the +x point clamped back to the bound
C9_SevenQueries ==
    /\ ForwardReturned
    /\ out.shading = "lambertian"
    /\ ~F.use_predict_normal
    /\ Count(out.calls, "query_density") = 7
    /\ out.x[1] = FD_BOUND
    /\ out.queried[2][1] = FD_BOUND
    /\ out.queried[5][1] = Sub(FD_BOUND, FD_EPSILON)

\* C10: the bias query_density adds at position p, for a field built with
\* density_bias_scale = s and offset_scale = o, is s * (1 - |p| / o).
C10_BiasUsesConstructorScales ==
    QueryDensityReturned =>
        out.q.density_bias = density_bias(out.x, F.density_bias_scale, F.offset_scale)

\* C10, the case that breaks it: a field built with scale 5 and offset 1 adds
\* at the origin the bias 10 of the defaults, not 5
C10_DefaultsUsed ==
    /\ QueryDensityReturned
    /\ F.density_bias_scale = Q(5, 1)
    /\ out.x = Vec(0, 0, 0)
    /\ out.q.density_bias = Q(10, 1)

====
